---- MODULE Spec2Model ----
(***************************************************************************)
(* Model of the chart-finder pipeline: the orchestrator (run-all), the     *)
(* chart scraper, the credits stage (Manus task submit / poll / clean /    *)
(* save), the YouTube stage and the HTML renderer, together with the data  *)
(* directory they share (dated snapshots and latest-*.json aliases).       *)
(***************************************************************************)
EXTENDS Integers, Sequences, FiniteSets, TLC

\* ---------------------------------------------------------------- bounds
MaxDay == 2          \* calendar days the model lets pass
MaxOrchRuns == 1     \* runs of the orchestrator per behaviour
MaxManualRuns == 1   \* stage scripts run by hand per behaviour
ChartRange == 2      \* CHART_RANGE taken from the environment
MaxItems == 3        \* items of a task result handed to the cleaner
MaxVideos == 3       \* videos of a search result handed to findBestVideo
MaxFaults == 1       \* file writes that fail per behaviour
MaxInterrupts == 1   \* SIGINT / SIGTERM signals sent per behaviour
MaxRows == 4         \* table rows of a page handed to scrapeKworbChart
MaxTracks == 3       \* tracks of the chart of a rendered page
MaxTimers == 2       \* setInterval timers alive at once in a page

\* ------------------------------------------------------- program constants
maxAttempts == 60    \* waitForTaskCompletion: poll budget

Stages == <<"chart", "credits", "video", "render">>
StageSet == {"chart", "credits", "video", "render"}
Kinds == {"chart", "credits", "youtube"}
Days == 1..MaxDay

\* The script file of each stage, as the orchestrator runs it.
Script(s) == CASE s = "chart" -> "scrape-kworb.js"
               [] s = "credits" -> "trigger-manus-agent.js"
               [] s = "video" -> "get-youtube-links.js"
               [] OTHER -> "generate-html.js"

\* The snapshot kind a stage writes, and the kind whose alias it reads.
KindOfShared(s) == CASE s = "chart" -> "chart" [] s = "credits" -> "credits"
                     [] s = "video" -> "credits" [] OTHER -> "none"
KindOf(s) == CASE s = "chart" -> "chart" [] s = "credits" -> "credits"
               [] s = "video" -> "youtube" [] OTHER -> "none"
Upstream(s) == CASE s = "credits" -> "chart" [] s = "video" -> "credits"
                 [] s = "render" -> "youtube" [] OTHER -> "none"

\* ------------------------------------------------------------ file system
\* A file is absent, or holds a sequence of complete JSON documents: the
\* empty sequence is a file that was opened for writing (truncated) and whose
\* content never arrived; one document is what writeFile leaves on success.
NoFile == [exists |-> FALSE, docs |-> <<>>]
Truncated == [exists |-> TRUE, docs |-> <<>>]
FileOf(doc) == [exists |-> TRUE, docs |-> <<doc>>]

\* fs.writeFile(path, text) opens the file with flag 'w' (created if absent,
\* emptied if present) and then writes the text into it.
OpenAppend(old) == [exists |-> TRUE, docs |-> old.docs]
OpenTrunc(old) == Truncated
WriteContent(f, doc) == [exists |-> TRUE, docs |-> Append(f.docs, doc)]

\* The error loadLatest*Data throws when the read or the parse fails, in the
\* pieces of its message.
LoadErrorRaw(s) == <<"ENOENT: no such file or directory">>
LoadError(s) ==
  CASE s = "credits" ->
         <<"Chart data not found. Run ", "scrape-kworb.js", " first.">>
    [] s = "video" ->
         <<"Credits data not found. Run ", "trigger-manus-agent.js",
           " first.">>
    [] OTHER ->
         <<"YouTube data not found. Run ", "get-youtube-links.js",
           " first.">>

\* fs.readFile + JSON.parse + `.data.length`: succeeds only on a file that
\* holds exactly one complete document.
Readable(f) == f.exists /\ Len(f.docs) = 1
DataOf(f) == f.docs[1].data

VARIABLES
  today,      \* current calendar day (the YYYY-MM-DD part of new Date())
  runs,       \* launches so far: [orch |-> ..., manual |-> ...]
  faults,     \* file writes that have failed so far
  latest,     \* latest[k]: the file latest-<k>.json
  dated,      \* dated[k][d]: the file <k>-<d>.json
  written,    \* written[k]: history of the dated writes of kind k (below)
              \* (the last one, the one before, all documents written)
  orch,       \* orchestrator: pc, index of the current stage, exit code
  pc,         \* pc[s]: position of the process of stage s
  exitCode,   \* exitCode[s]: -1 while not exited, else the exit status
  failedAt,   \* failedAt[s]: the step at which stage s failed ("" if none)
  startLatest,\* startLatest[s]: latest alias of s's own kind when s started
  sv,         \* sv[s]: locals of the save function (file day, dataToSave)
  chartData,  \* chart stage: scraped entries
  cred,       \* credits stage locals
  vid,        \* video stage locals
  rend,       \* render stage: the data loaded from latest-youtube.json
  dist,       \* renderer output (index.html)
  call,       \* one call of a function on its own: [fn, arg, done, ret]
  sig,        \* signals sent so far, and who received the one of this run
  player      \* the ChartPlayer of the rendered page

vars == <<today, runs, faults, latest, dated, written, orch, pc, exitCode,
          failedAt, startLatest, sv, chartData, cred, vid, rend, dist,
          call, sig, player>>

Running(s) == pc[s] \notin {"idle", "exited"}
NoneRunning == \A s \in StageSet : ~Running(s)

NoDoc == [timestamp |-> 0, source |-> "", data |-> <<>>]
NoSv == [day |-> 0, doc |-> NoDoc]

\* History kept for the properties: day and document of the last dated write
\* of a kind that completed, how many dated writes in a row completed for that
\* day, and the document of the write before the last.
NoWrite == [day |-> 0, doc |-> NoDoc, n |-> 0, prev |-> NoDoc, docs |-> {}]
Record(w, day, doc) ==
  [day |-> day, doc |-> doc, n |-> IF w.day = day THEN w.n + 1 ELSE 1,
   prev |-> w.doc, docs |-> w.docs \cup {doc}]

CredInit == [chartData |-> <<>>, submits |-> 0, request |-> <<>>,
             attempts |-> 0, polls |-> 0, sleeps |-> 0,
             outcome |-> [type |-> "none", msg |-> <<>>, payload |-> 0],
             resp |-> [kind |-> "", status |-> "", err |-> "",
                       payload |-> 0]]
VidInit == [creditsData |-> <<>>, i |-> 0, results |-> <<>>,
            probes |-> 0, searches |-> 0, inFlight |-> 0, delays |-> 0,
            resp |-> [failed |-> FALSE, videos |-> <<>>]]

\* No SIGINT or SIGTERM has been sent.
NoSignal == [n |-> 0, target |-> ""]

\* No page is open: no ChartPlayer has been constructed.
NoPlayer == [chartData |-> <<>>, currentIndex |-> 0, autoPlayInterval |-> 0,
             timers |-> 0, last |-> [op |-> "", arg |-> 0, from |-> 0]]

\* No function is being called on its own.
NoCall == [fn |-> "", arg |-> <<>>, done |-> FALSE, ret |-> <<>>]

\* The pipeline's variables before the first run.
PipelineInit ==
  /\ today = 1
  /\ runs = [orch |-> 0, manual |-> 0]
  /\ faults = 0
  /\ latest = [k \in Kinds |-> NoFile]
  /\ dated = [k \in Kinds |-> [d \in Days |-> NoFile]]
  /\ written = [k \in Kinds |-> NoWrite]
  /\ orch = [pc |-> "idle", idx |-> 0, exit |-> -1]
  /\ pc = [s \in StageSet |-> "idle"]
  /\ exitCode = [s \in StageSet |-> -1]
  /\ failedAt = [s \in StageSet |-> ""]
  /\ startLatest = [s \in StageSet |-> NoFile]
  /\ sv = [s \in StageSet |-> NoSv]
  /\ chartData = <<>>
  /\ cred = CredInit
  /\ vid = VidInit
  /\ rend = <<>>
  /\ dist = [exists |-> FALSE, data |-> <<>>]
  /\ sig = NoSignal

Init ==
  /\ PipelineInit
  /\ player = NoPlayer
  /\ call = NoCall

\* ------------------------------------------------------------------ time
\* Midnight passes: new Date().toISOString().split('T')[0] changes.  The
\* date is read only in the first lines of a save function, so a midnight that
\* passes inside a stage shows exactly like one that passes just before the
\* stage starts or just after it ends: only those are taken.
NextDay ==
  /\ today < MaxDay
  /\ NoneRunning
  /\ today' = today + 1
  /\ UNCHANGED <<runs, faults, latest, dated, written, orch, pc, exitCode,
                 failedAt, startLatest, sv, chartData, cred, vid, rend, dist,
                 call, sig, player>>

\* ------------------------------------------------------- process helpers
\* A stage process begins: `node <script>` starts running main().
Launch(s) ==
  /\ pc' = [pc EXCEPT ![s] = "start"]
  /\ exitCode' = [exitCode EXCEPT ![s] = -1]
  /\ failedAt' = [failedAt EXCEPT ![s] = ""]
  /\ startLatest' = [startLatest EXCEPT
                       ![s] = IF KindOf(s) \in Kinds THEN latest[KindOf(s)]
                              ELSE NoFile]
  /\ sv' = [sv EXCEPT ![s] = NoSv]
  /\ chartData' = IF s = "chart" THEN <<>> ELSE chartData
  /\ cred' = IF s = "credits" THEN CredInit ELSE cred
  /\ vid' = IF s = "video" THEN VidInit ELSE vid
  /\ rend' = IF s = "render" THEN <<>> ELSE rend

\* The process of stage s ends with status 1: process.exit(1) in the catch of
\* main(), or a rejection nothing handles (the throw before the try).
Fail(s, step) ==
  /\ pc' = [pc EXCEPT ![s] = "exited"]
  /\ exitCode' = [exitCode EXCEPT ![s] = 1]
  /\ failedAt' = [failedAt EXCEPT ![s] = step]

\* Exit status of a process whose main() rejected before its try block:
\* nothing handles the rejection and node ends the process with status 1.
UnhandledRejectionExit == 1

\* if (!..._API_KEY) throw new Error(...) as the first statement of main().
MissingKeyWarns(s) ==
  /\ pc' = [pc EXCEPT ![s] = "exited"]
  /\ exitCode' = [exitCode EXCEPT ![s] = 0]
  /\ failedAt' = [failedAt EXCEPT ![s] = "nokey"]

MissingKey(s) ==
  /\ pc' = [pc EXCEPT ![s] = "exited"]
  /\ exitCode' = [exitCode EXCEPT ![s] = UnhandledRejectionExit]
  /\ failedAt' = [failedAt EXCEPT ![s] = "nokey"]

Goto(s, p) ==
  /\ pc' = [pc EXCEPT ![s] = p]
  /\ UNCHANGED <<exitCode, failedAt>>


\* ------------------------------------------------------------- snapshots
KWORB_URL == "https://kworb.net/spotify/country/global_weekly.html"
SourceTag(s) == CASE s = "chart" -> KWORB_URL
                  [] s = "credits" -> "manus-agent-tidal"
                  [] s = "video" -> "youtube-api-v3"
                  [] OTHER -> ""

\* First lines of save*Data: the file name is derived from the current day
\* and dataToSave is built (its ISO timestamp is kept to the day; the chart's
\* `range` field is left out); the dated writeFile is then issued.
EnterSaveAliasOnly(s, data) ==
  /\ sv' = [sv EXCEPT ![s] = [day |-> today,
                              doc |-> [timestamp |-> today,
                                       source |-> SourceTag(s),
                                       data |-> data]]]
  /\ Goto(s, "open_latest")

EnterSave(s, data) ==
  /\ sv' = [sv EXCEPT ![s] = [day |-> today,
                              doc |-> [timestamp |-> today,
                                       source |-> SourceTag(s),
                                       data |-> data]]]
  /\ Goto(s, "open_dated")

\* The text of the second writeFile: JSON.stringify(dataToSave), the same
\* object as the first.
AliasDocBare(s) == [sv[s].doc EXCEPT !.timestamp = 0, !.source = ""]
AliasDoc(s) == sv[s].doc

\* A writeFile call rejects (EACCES, ENOSPC, EIO, ...).
WriteFails ==
  /\ faults < MaxFaults
  /\ faults' = faults + 1

\* await fs.writeFile(filepath, ...): the file is opened (and truncated) ...
SaveOpenDated(s) ==
  /\ pc[s] = "open_dated"
  /\ \/ /\ dated' = [dated EXCEPT ![KindOf(s)][sv[s].day] =
                        OpenTrunc(dated[KindOf(s)][sv[s].day])]
        /\ Goto(s, "write_dated")
        /\ UNCHANGED faults
     \/ /\ WriteFails                          \* open fails: file untouched
        /\ Fail(s, "save")
        /\ UNCHANGED dated
  /\ UNCHANGED <<today, runs, latest, written, orch, startLatest, sv,
                 chartData, cred, vid, rend, dist, call, sig, player>>

\* ... and its content written; then the latest writeFile is issued.
SaveWriteDated(s) ==
  /\ pc[s] = "write_dated"
  /\ \/ /\ dated' = [dated EXCEPT ![KindOf(s)][sv[s].day] =
                        WriteContent(dated[KindOf(s)][sv[s].day], sv[s].doc)]
        /\ written' = [written EXCEPT ![KindOf(s)] =
                          Record(@, sv[s].day, sv[s].doc)]
        /\ Goto(s, "open_latest")
        /\ UNCHANGED faults
     \/ /\ WriteFails                          \* write fails part-way
        /\ Fail(s, "save")
        /\ UNCHANGED <<dated, written>>
  /\ UNCHANGED <<today, runs, latest, orch, startLatest, sv, chartData,
                 cred, vid, rend, dist, call, sig, player>>

SaveOpenLatest(s) ==
  /\ pc[s] = "open_latest"
  /\ \/ /\ latest' = [latest EXCEPT ![KindOf(s)] =
                         OpenTrunc(latest[KindOf(s)])]
        /\ Goto(s, "write_latest")
        /\ UNCHANGED faults
     \/ /\ WriteFails
        /\ Fail(s, "save")
        /\ UNCHANGED latest
  /\ UNCHANGED <<today, runs, dated, written, orch, startLatest, sv,
                 chartData, cred, vid, rend, dist, call, sig, player>>

\* The latest alias is written; the save function returns, main() logs and
\* returns, and the process ends with status 0.
SaveWriteLatest(s) ==
  /\ pc[s] = "write_latest"
  /\ \/ /\ latest' = [latest EXCEPT ![KindOf(s)] =
                         WriteContent(latest[KindOf(s)], AliasDoc(s))]
        /\ pc' = [pc EXCEPT ![s] = "exited"]
        /\ exitCode' = [exitCode EXCEPT ![s] = 0]
        /\ UNCHANGED <<failedAt, faults>>
     \/ /\ WriteFails
        /\ Fail(s, "save")
        /\ UNCHANGED latest
  /\ UNCHANGED <<today, runs, dated, written, orch, startLatest, sv,
                 chartData, cred, vid, rend, dist, call, sig, player>>

SaveSteps(s) ==
  \/ SaveOpenDated(s)
  \/ SaveWriteDated(s)
  \/ SaveOpenLatest(s)
  \/ SaveWriteLatest(s)

saveChartData == SaveSteps("chart")
saveCreditsData == SaveSteps("credits")
saveYouTubeData == SaveSteps("video")

\* ----------------------------------------------------------- orchestrator
OrchIdle == orch.pc \in {"idle", "exited"}

\* `node run-all.js`: main() starts.
OrchStart ==
  /\ OrchIdle /\ NoneRunning
  /\ runs.orch < MaxOrchRuns
  /\ runs' = [runs EXCEPT !.orch = @ + 1]
  /\ orch' = [pc |-> "spawn", idx |-> 1, exit |-> -1]
  /\ pc' = [s \in StageSet |-> "idle"]
  /\ exitCode' = [s \in StageSet |-> -1]
  /\ failedAt' = [s \in StageSet |-> ""]
  /\ startLatest' = [s \in StageSet |-> NoFile]
  /\ sv' = [s \in StageSet |-> NoSv]
  /\ chartData' = <<>>
  /\ cred' = CredInit
  /\ vid' = VidInit
  /\ rend' = <<>>
  /\ sig' = [sig EXCEPT !.target = ""]
  /\ UNCHANGED <<today, faults, latest, dated, written, dist, call, player>>

\* An operator runs one stage script by hand (`node scripts/<stage>.js`).
ManualRun ==
  /\ OrchIdle /\ NoneRunning
  /\ runs.manual < MaxManualRuns
  /\ runs' = [runs EXCEPT !.manual = @ + 1]
  /\ orch' = [pc |-> "idle", idx |-> 0, exit |-> -1]
  /\ \E s \in StageSet :
       /\ pc' = [t \in StageSet |-> IF t = s THEN "start" ELSE "idle"]
       /\ exitCode' = [t \in StageSet |-> -1]
       /\ failedAt' = [t \in StageSet |-> ""]
       /\ startLatest' = [t \in StageSet |->
                            IF t = s /\ KindOf(s) \in Kinds
                            THEN latest[KindOf(s)] ELSE NoFile]
  /\ sv' = [s \in StageSet |-> NoSv]
  /\ chartData' = <<>>
  /\ cred' = CredInit
  /\ vid' = VidInit
  /\ rend' = <<>>
  /\ sig' = [sig EXCEPT !.target = ""]
  /\ UNCHANGED <<today, faults, latest, dated, written, dist, call, player>>

\* runScript: spawn('node', [scriptPath]); the 'error' event (the child could
\* not be spawned) rejects, and main()'s catch exits with status 1.
runScriptSpawn ==
  /\ orch.pc = "spawn"
  /\ \/ /\ Launch(Stages[orch.idx])
        /\ orch' = [orch EXCEPT !.pc = "await"]
     \/ /\ orch' = [orch EXCEPT !.pc = "exited", !.exit = 1]
        /\ UNCHANGED <<pc, exitCode, failedAt, startLatest, sv, chartData,
                       cred, vid, rend>>
  /\ UNCHANGED <<today, runs, faults, latest, dated, written, dist,
                 call, sig, player>>

\* child.on('close', code): code === 0 resolves, anything else rejects.
StageSucceededAlways(code) == TRUE
StageSucceeded(code) == code = 0

\* main(): the awaited runScript settles; on success the next runScript call
\* follows (or main returns after the fourth), on rejection process.exit(1).
Settle(ok) ==
  /\ orch' = IF ok
             THEN IF orch.idx < Len(Stages)
                  THEN [orch EXCEPT !.pc = "spawn", !.idx = orch.idx + 1]
                  ELSE [orch EXCEPT !.pc = "exited", !.exit = 0]
             ELSE [orch EXCEPT !.pc = "exited", !.exit = 1]
  /\ UNCHANGED <<today, runs, faults, latest, dated, written, pc, exitCode,
                 failedAt, dist, call, sig, player>>

\* The memory of a process that has exited is gone.
Reap(s) ==
  /\ UNCHANGED startLatest
  /\ sv' = [sv EXCEPT ![s] = NoSv]
  /\ chartData' = IF s = "chart" THEN <<>> ELSE chartData
  /\ cred' = IF s = "credits" THEN CredInit ELSE cred
  /\ vid' = IF s = "video" THEN VidInit ELSE vid
  /\ rend' = IF s = "render" THEN <<>> ELSE rend

runScriptNoAwait ==
  /\ orch.pc = "await"
  /\ Settle(TRUE)
  /\ UNCHANGED <<startLatest, sv, chartData, cred, vid, rend>>

runScriptClose ==
  /\ orch.pc = "await"
  /\ pc[Stages[orch.idx]] = "exited"
  /\ Settle(StageSucceeded(exitCode[Stages[orch.idx]]))
  /\ Reap(Stages[orch.idx])

\* SIGINT or SIGTERM arrives while the credits stage is polling.  The
\* orchestrator handles both alike: it logs and calls process.exit(1), and
\* does nothing to the child it spawned.  The stage scripts install no
\* handler, so a stage process that receives the signal is ended by it (exit
\* code null for its parent, 128 + 2 for a shell).  Who receives it is the
\* sender's choice: the whole foreground process group (Ctrl-C in the
\* terminal), the orchestrator process alone (kill <pid>), or the script run
\* by hand.
SignalTargets == IF orch.pc = "await" THEN {"group", "orch"} ELSE {"stage"}

Killed(s) ==
  /\ pc' = [pc EXCEPT ![s] = "exited"]
  /\ exitCode' = [exitCode EXCEPT ![s] = 130]
  /\ failedAt' = [failedAt EXCEPT ![s] = "killed"]

Interrupt ==
  /\ sig.n < MaxInterrupts
  /\ pc["credits"] \in {"poll", "sleep"}
  /\ \E target \in SignalTargets :
       /\ sig' = [n |-> sig.n + 1, target |-> target]
       /\ orch' = IF target = "stage" THEN orch
                  ELSE [orch EXCEPT !.pc = "exited", !.exit = 1]
       /\ IF target = "orch" THEN UNCHANGED <<pc, exitCode, failedAt>>
          ELSE Killed("credits")
  /\ UNCHANGED <<today, runs, faults, latest, dated, written, startLatest,
                 sv, chartData, cred, vid, rend, dist, call, player>>

\* ------------------------------------------------------------ chart stage
\* A table row's second cell is given already split at " - ": no part (blank
\* cell), one part (no separator) or two parts.
\* The pages kworb serves in the pipeline runs of this model: no row with
\* text, one row, and a blank row between two rows with text.
Pages == {<<>>, <<<<"A", "B">>>>, <<<<"B">>, <<>>, <<"A", "B">>>>}

\* The body of the .each() callback for one row.
ScrapeRowZeroBased(acc, cell) ==
  IF Len(acc) >= ChartRange THEN acc
  ELSE IF cell = <<>> THEN acc
  ELSE Append(acc, [rank |-> Len(acc),
                    artist |-> IF Len(cell) >= 2 THEN cell[1]
                               ELSE "Unknown Artist",
                    title |-> IF Len(cell) >= 2 THEN cell[2] ELSE cell[1]])

ScrapeRow(acc, cell) ==
  IF Len(acc) >= ChartRange THEN acc
  ELSE IF cell = <<>> THEN acc
  ELSE Append(acc, [rank |-> Len(acc) + 1,
                    artist |-> IF Len(cell) >= 2 THEN cell[1]
                               ELSE "Unknown Artist",
                    title |-> IF Len(cell) >= 2 THEN cell[2] ELSE cell[1]])

RECURSIVE ScrapeRows(_, _)
ScrapeRows(acc, rows) ==
  IF rows = <<>> THEN acc
  ELSE ScrapeRows(ScrapeRow(acc, Head(rows)), Tail(rows))

\* main(): ensureDataDir (mkdir -p), then the page request is issued.
ChartStart ==
  /\ pc["chart"] = "start"
  /\ \/ Goto("chart", "scrape")
     \/ Fail("chart", "mkdir")
  /\ UNCHANGED <<today, runs, faults, latest, dated, written, orch,
                 startLatest, sv, chartData, cred, vid, rend, dist,
                 call, sig, player>>

\* scrapeKworbChart: the request fails, or the rows are parsed; an empty
\* result throws; otherwise saveChartData starts.
ChartScrape ==
  /\ pc["chart"] = "scrape"
  /\ \/ /\ Fail("chart", "scrape")
        /\ UNCHANGED <<chartData, sv>>
     \/ \E rows \in Pages :
          LET data == ScrapeRows(<<>>, rows) IN
          /\ chartData' = data
          /\ IF Len(data) = 0
             THEN Fail("chart", "empty") /\ UNCHANGED sv
             ELSE EnterSave("chart", data)
  /\ UNCHANGED <<today, runs, faults, latest, dated, written, orch,
                 startLatest, cred, vid, rend, dist, call, sig, player>>


\* ---------------------------------------------------------- credits stage
\* JSON values of the remote result, written as tagged strings: "undef" (the
\* field is absent), "null", "s:<text>" for a string, "n:<digits>" a number.
JsStrings == {"s:", "s:A", "s:B", "s:C", "s:PRODUCER", "s:X"}
Falsy == {"undef", "null", "s:", "n:0"}
Truthy(v) == v \notin Falsy
IsString(v) == v \in JsStrings

Line(role, people) == [isObj |-> TRUE, role |-> role, people |-> people]
Item(rank, artist, title, album, isArr, lines) ==
  [isObj |-> TRUE, rank |-> rank, artist |-> artist, title |-> title,
   album |-> album, credits |-> [isArray |-> isArr, lines |-> lines]]

\* The test of the filter callback: credit.role && credit.people &&
\* typeof credit.role === 'string' && typeof credit.people === 'string'.
LineKeptRoleOnly(c) == Truthy(c.role) /\ IsString(c.role)
LineKept(c) ==
  /\ Truthy(c.role) /\ Truthy(c.people)
  /\ IsString(c.role) /\ IsString(c.people)

\* The credit lines that pass the filter of validateAndCleanCredits.
RECURSIVE FilterLines(_)
FilterLines(lines) ==
  IF lines = <<>> THEN <<>>
  ELSE IF LineKept(Head(lines))
       THEN <<Head(lines)>> \o FilterLines(Tail(lines))
       ELSE FilterLines(Tail(lines))

\* Reading a property of null / undefined throws a TypeError.
ItemThrows(item) ==
  \/ ~item.isObj
  \/ /\ Truthy(item.rank) /\ Truthy(item.artist) /\ Truthy(item.title)
     /\ item.credits.isArray
     /\ \E i \in 1..Len(item.credits.lines) : ~item.credits.lines[i].isObj

ItemKept(item) ==
  Truthy(item.rank) /\ Truthy(item.artist) /\ Truthy(item.title)

CleanItemTrimmed(item) ==
  [item EXCEPT !.credits =
     [isArray |-> TRUE,
      lines |-> IF item.credits.isArray
                THEN SubSeq(FilterLines(item.credits.lines), 1,
                            Len(FilterLines(item.credits.lines)) - 1)
                ELSE <<>>]]

CleanItem(item) ==
  [item EXCEPT !.credits =
     [isArray |-> TRUE,
      lines |-> IF item.credits.isArray THEN FilterLines(item.credits.lines)
                ELSE <<>>]]

RECURSIVE CleanItemsReversed(_)
CleanItemsReversed(items) ==
  IF items = <<>> THEN <<>>
  ELSE IF ItemKept(Head(items))
       THEN CleanItemsReversed(Tail(items)) \o <<CleanItem(Head(items))>>
       ELSE CleanItemsReversed(Tail(items))

RECURSIVE CleanItems(_)
CleanItems(items) ==
  IF items = <<>> THEN <<>>
  ELSE IF ItemKept(Head(items))
       THEN <<CleanItem(Head(items))>> \o CleanItems(Tail(items))
       ELSE CleanItems(Tail(items))

\* Array.isArray(creditsData)
IsArrayLoose(p) == TRUE
IsArray(p) == p.isArray

\* validateAndCleanCredits: throws on a non-array (and on a TypeError inside
\* the map callback), otherwise returns the cleaned entries.
ValidateAndCleanCredits(p) ==
  IF ~IsArray(p)
  THEN [ok |-> FALSE, err |-> "Credits data must be an array",
        data |-> <<>>]
  ELSE IF \E i \in 1..Len(p.items) : ItemThrows(p.items[i])
  THEN [ok |-> FALSE, err |-> "TypeError", data |-> <<>>]
  ELSE [ok |-> TRUE, err |-> "", data |-> CleanItems(p.items)]

\* Result payloads the remote task can carry in this model.
GoodItem == Item("n:1", "s:A", "s:B", "s:C", TRUE,
                 <<Line("s:PRODUCER", "s:X"), Line("s:", "s:X")>>)
BareItem == Item("n:2", "s:A", "s:B", "undef", FALSE, <<>>)
BadItem == Item("n:2", "s:A", "undef", "s:C", TRUE, <<>>)
ResultPayloads ==
  << [isArray |-> FALSE, items |-> <<>>],
     [isArray |-> TRUE, items |-> <<GoodItem, BareItem>>],
     [isArray |-> TRUE, items |-> <<BadItem, BareItem>>] >>

RemoteErrors == {"undefined", "agent crashed"}
NetErrors == {"Network Error", "timeout of 300000ms exceeded"}
\* Status values other than 'completed' and 'failed', the only two the
\* code names: what Manus reports for a task under way, and a value it is
\* not documented to report.
ContinueStatuses == {"pending", "running", "queued"}

HttpResponses ==
  [kind : {"http"}, status : ContinueStatuses, err : {""}, payload : {0}]
  \cup [kind : {"http"}, status : {"completed"}, err : {""},
        payload : 1..Len(ResultPayloads)]
  \cup [kind : {"http"}, status : {"failed"}, err : RemoteErrors,
        payload : {0}]
PollResponses ==
  HttpResponses
  \cup [kind : {"neterr"}, status : {""}, err : NetErrors, payload : {0}]

NoOutcome == [type |-> "none", msg |-> <<>>, payload |-> 0]
Returned(p) == [type |-> "return", msg |-> <<>>, payload |-> p]
Thrown(m) == [type |-> "throw", msg |-> m, payload |-> 0]

TaskFailedError(err) == <<"Task failed: ", err>>
TaskTimeoutError == <<"Task timeout: Credits collection took too long">>

\* while (attempts < maxAttempts)
LoopContinuesOnceMore(attempts) == attempts <= maxAttempts
LoopContinues(attempts) == attempts < maxAttempts

\* task.status === 'completed' / task.status === 'failed'
IsCompletedNever(status) == FALSE
IsCompleted(status) == status = "completed"
IsFailedNever(status) == FALSE
IsFailed(status) == status = "failed"

\* catch (error) { console.error(...); throw error; } around one iteration.
CatchPollRetry(c, msg) == c
CatchPoll(c, msg) == [c EXCEPT !.outcome = Thrown(msg)]

\* One iteration of the loop of waitForTaskCompletion, from the response of
\* the GET to the point where it returns, throws or goes to sleep.
OnResponseStrict(c, resp) ==
  LET c1 == [c EXCEPT !.resp = resp] IN
  IF resp.kind = "neterr" THEN CatchPoll(c1, <<resp.err>>)
  ELSE IF IsCompleted(resp.status)
       THEN [c1 EXCEPT !.outcome = Returned(resp.payload)]
  ELSE IF IsFailed(resp.status) \/ resp.status \notin {"pending", "running"}
       THEN CatchPoll(c1, TaskFailedError(resp.err))
  ELSE c1

OnResponse(c, resp) ==
  LET c1 == [c EXCEPT !.resp = resp] IN
  IF resp.kind = "neterr" THEN CatchPoll(c1, <<resp.err>>)
  ELSE IF IsCompleted(resp.status)
       THEN [c1 EXCEPT !.outcome = Returned(resp.payload)]
  ELSE IF IsFailed(resp.status)
       THEN CatchPoll(c1, TaskFailedError(resp.err))
  ELSE c1

\* The prompt of requestCreditsCollection: one line per chart entry.
PromptLines(data) ==
  [i \in 1..Len(data) |-> <<data[i].rank, data[i].artist, data[i].title>>]

\* Number of POST /v1/tasks requests requestCreditsCollection sends.
PostsPerEntry(data) == Len(data)
PostsPerRun(data) == 1

credVarsRest == <<today, runs, faults, orch, startLatest, chartData, vid,
                  rend, dist, call, sig, player>>

\* catch (error) { console.error(...); process.exit(1); } of main(): the
\* data directory is left as it is.
CreditsCatchResets(step) ==
  /\ Fail("credits", step)
  /\ latest' = [latest EXCEPT !["credits"] = Truncated]
CreditsCatch(step) ==
  /\ Fail("credits", step)
  /\ UNCHANGED latest

\* main(): the API key check (a throw outside the try: the rejection is not
\* handled and the process ends with status 1), then loadLatestChartData
\* issues its readFile.
CreditsStart ==
  /\ pc["credits"] = "start"
  /\ \/ MissingKey("credits")
     \/ Goto("credits", "load")
  /\ UNCHANGED <<latest, dated, written, sv, cred>>
  /\ UNCHANGED credVarsRest

\* loadLatestChartData returns (or throws "Chart data not found ..."); then
\* requestCreditsCollection builds the prompt and sends the POST.
CreditsLoad ==
  /\ pc["credits"] = "load"
  /\ IF ~Readable(latest["chart"])
     THEN CreditsCatch("load") /\ UNCHANGED cred
     ELSE LET data == DataOf(latest["chart"]) IN
          IF Len(data) = 0
          THEN /\ CreditsCatch("prompt")       \* chartData[0].rank throws
               /\ cred' = [cred EXCEPT !.chartData = data]
          ELSE /\ cred' = [cred EXCEPT !.chartData = data,
                                       !.submits = PostsPerRun(data),
                                       !.request = PromptLines(data)]
               /\ Goto("credits", "submit")
               /\ UNCHANGED latest
  /\ UNCHANGED <<dated, written, sv>>
  /\ UNCHANGED credVarsRest

\* The POST settles: on failure the error is rethrown and main() exits 1; on
\* success waitForTaskCompletion starts and sends its first GET.
CreditsSubmit ==
  /\ pc["credits"] = "submit"
  /\ \/ CreditsCatch("submit") /\ UNCHANGED cred
     \/ IF LoopContinues(cred.attempts)
        THEN /\ cred' = [cred EXCEPT !.polls = @ + 1]
             /\ Goto("credits", "poll")
             /\ UNCHANGED latest
        ELSE /\ cred' = [cred EXCEPT !.outcome = Thrown(TaskTimeoutError)]
             /\ CreditsCatch("timeout")
  /\ UNCHANGED <<dated, written, sv>>
  /\ UNCHANGED credVarsRest

\* The GET settles.  completed: the result is validated and saveCreditsData
\* starts; failed or a request error: thrown; otherwise the 30 s timer starts.
CreditsPoll ==
  /\ pc["credits"] = "poll"
  /\ \E resp \in PollResponses :
       LET c == OnResponse(cred, resp) IN
       /\ cred' = c
       /\ IF c.outcome.type = "throw"
          THEN /\ CreditsCatch(IF resp.kind = "neterr" THEN "pollerror"
                               ELSE "failed")
               /\ UNCHANGED sv
          ELSE IF c.outcome.type = "return"
          THEN LET v == ValidateAndCleanCredits(
                            ResultPayloads[c.outcome.payload]) IN
               IF v.ok THEN EnterSave("credits", v.data) /\ UNCHANGED latest
               ELSE CreditsCatch("validate") /\ UNCHANGED sv
          ELSE Goto("credits", "sleep") /\ UNCHANGED <<sv, latest>>
  /\ UNCHANGED <<dated, written>>
  /\ UNCHANGED credVarsRest

\* The timer fires: attempts++, then the loop condition; either the next GET
\* is sent or the timeout error is thrown.
CreditsSleep ==
  /\ pc["credits"] = "sleep"
  /\ LET a == cred.attempts + 1 IN
     IF LoopContinues(a)
     THEN /\ cred' = [cred EXCEPT !.attempts = a, !.sleeps = @ + 1,
                                  !.polls = @ + 1]
          /\ Goto("credits", "poll")
          /\ UNCHANGED latest
     ELSE /\ cred' = [cred EXCEPT !.attempts = a, !.sleeps = @ + 1,
                                  !.outcome = Thrown(TaskTimeoutError)]
          /\ CreditsCatch("timeout")
  /\ UNCHANGED <<dated, written, sv>>
  /\ UNCHANGED credVarsRest

\* ------------------------------------------------------------ video stage
\* A search result is described by the probe strings its channel name and
\* its title contain (after toLowerCase); "artist" and "title" stand for the
\* lowercased artist and title of the entry searched for.
OfficialKeywords == <<"vevo", "records", "music", "official", "artist">>
ExcludeKeywordsShort == <<"cover", "remix", "live", "acoustic", "karaoke">>
ExcludeKeywords == <<"cover", "remix", "live", "acoustic", "karaoke",
                     "instrumental">>

Video(id, channel, title) ==
  [videoId |-> id, channelHas |-> channel, titleHas |-> title]

\* for (const keyword of keywords) { if (text.includes(keyword)) { score
\* += / -= ...; break; } }: the number of times the body runs, from keyword i.
RECURSIVE KeywordHitsNoBreak(_, _, _)
KeywordHitsNoBreak(has, keywords, i) ==
  IF i > Len(keywords) THEN 0
  ELSE (IF keywords[i] \in has THEN 1 ELSE 0)
       + KeywordHitsNoBreak(has, keywords, i + 1)

RECURSIVE KeywordHits(_, _, _)
KeywordHits(has, keywords, i) ==
  IF i > Len(keywords) THEN 0
  ELSE IF keywords[i] \in has THEN 1
  ELSE KeywordHits(has, keywords, i + 1)

\* The score findBestVideo gives the video at position idx (from 1), in
\* the order the code adds to it.
Score(v, idx) ==
    10 * KeywordHits(v.channelHas, OfficialKeywords, 1)
  + (IF "artist" \in v.titleHas /\ "title" \in v.titleHas THEN 5 ELSE 0)
  + (IF "official" \in v.titleHas \/ "music video" \in v.titleHas
     THEN 3 ELSE 0)
  - 5 * KeywordHits(v.titleHas, ExcludeKeywords, 1)
  + (IF idx = 1 THEN 2 ELSE 0)

\* findBestVideo: the index of the chosen video, 0 for null.  The running
\* best starts at (null, 0) and is replaced only by a strictly higher score.
\* if (score > bestScore)
ReplacesOnTie(score, bestScore) == score >= bestScore
Replaces(score, bestScore) == score > bestScore

RECURSIVE BestFrom(_, _, _, _)
BestFrom(videos, idx, best, bestScore) ==
  IF idx > Len(videos) THEN best
  ELSE IF Replaces(Score(videos[idx], idx), bestScore)
       THEN BestFrom(videos, idx + 1, idx, Score(videos[idx], idx))
       ELSE BestFrom(videos, idx + 1, best, bestScore)

FindBestVideo(videos) == BestFrom(videos, 1, 0, 0)

NoMatch == [found |-> FALSE, videoId |-> ""]
Match(v) == [found |-> TRUE, videoId |-> v.videoId]

\* searchYouTubeVideo: null on a request error, on no results and when
\* findBestVideo returns null; otherwise the chosen video.
SearchResult(failed, videos) ==
  IF failed \/ Len(videos) = 0 THEN NoMatch
  ELSE IF FindBestVideo(videos) = 0 THEN NoMatch
  ELSE Match(videos[FindBestVideo(videos)])

OfficialVideo == Video("v1", {"vevo"}, {"artist", "title", "official"})
CoverVideo == Video("v2", {}, {"cover"})
CandidateLists == {<<>>, <<OfficialVideo>>, <<CoverVideo, OfficialVideo>>,
                   <<CoverVideo>>}

\* What youtube.search.list settles with: an error, or the items found.
SearchResponses ==
  {[failed |-> TRUE, videos |-> <<>>]}
    \cup {[failed |-> FALSE, videos |-> l] : l \in CandidateLists}

\* { ...item, youtube: youtubeData }
WithYoutubeOnly(item, y) ==
  [f \in {"rank", "artist", "title", "youtube"} |->
     IF f = "youtube" THEN y ELSE item[f]]

WithYoutube(item, y) ==
  [f \in DOMAIN item \cup {"youtube"} |->
     IF f = "youtube" THEN y ELSE item[f]]

\* results.push({ ...item, youtube: youtubeData }) for every entry, found
\* or not.
PushResultIfFound(results, item, y) ==
  IF y.found THEN Append(results, WithYoutube(item, y)) ELSE results

PushResult(results, item, y) == Append(results, WithYoutube(item, y))

\* if (i < creditsData.length - 1) await new Promise(... delay), with i
\* counted from 1 here.
NeedsDelayNever(i, n) == FALSE

NeedsDelay(i, n) == i < n

vidVarsRest == <<today, runs, faults, orch, startLatest, chartData, cred,
                 rend, dist, call, sig, player>>

\* catch (error) { console.error(...); process.exit(1); } of main().
VideoCatch(step) ==
  /\ Fail("video", step)
  /\ UNCHANGED latest

\* main(): the API key check, then checkApiQuota sends its test search
\* (youtube.search.list with q: 'test').
VideoStart ==
  /\ pc["video"] = "start"
  /\ \/ MissingKey("video") /\ UNCHANGED vid
     \/ Goto("video", "quota") /\ vid' = [vid EXCEPT !.probes = @ + 1]
  /\ UNCHANGED <<latest, dated, written, sv>>
  /\ UNCHANGED vidVarsRest

\* checkApiQuota settles; on success loadLatestCreditsData issues readFile.
VideoQuota ==
  /\ pc["video"] = "quota"
  /\ \/ VideoCatch("quota")
     \/ Goto("video", "load") /\ UNCHANGED latest
  /\ UNCHANGED <<dated, written, sv, vid>>
  /\ UNCHANGED vidVarsRest

\* loadLatestCreditsData returns or throws; collectAllYouTubeLinks starts and
\* sends the search for the first entry (or returns at once on no entries).
VideoLoad ==
  /\ pc["video"] = "load"
  /\ IF ~Readable(latest["credits"])
     THEN VideoCatch("load") /\ UNCHANGED <<vid, sv>>
     ELSE LET data == DataOf(latest["credits"]) IN
          IF Len(data) = 0
          THEN /\ vid' = [vid EXCEPT !.creditsData = data]
               /\ EnterSave("video", <<>>)
               /\ UNCHANGED latest
          ELSE /\ vid' = [vid EXCEPT !.creditsData = data, !.i = 1,
                                     !.searches = 1, !.inFlight = 1]
               /\ Goto("video", "search")
               /\ UNCHANGED <<sv, latest>>
  /\ UNCHANGED <<dated, written>>
  /\ UNCHANGED vidVarsRest

\* The search for entry i settles (searchYouTubeVideo catches every error
\* and returns null, so the catch of the loop body never runs) and the entry
\* is pushed to results; then the delay timer starts, or after the last
\* entry the loop ends and saveYouTubeData starts.
VideoSearch ==
  /\ pc["video"] = "search"
  /\ \E r \in SearchResponses :
       LET y == SearchResult(r.failed, r.videos)
           res == PushResult(vid.results, vid.creditsData[vid.i], y)
           settled == [vid EXCEPT !.results = res, !.inFlight = 0,
                                  !.resp = r]
       IN IF vid.i >= Len(vid.creditsData)
          THEN vid' = settled /\ EnterSave("video", res)
          ELSE IF NeedsDelay(vid.i, Len(vid.creditsData))
          THEN vid' = settled /\ Goto("video", "delay") /\ UNCHANGED sv
          ELSE /\ vid' = [settled EXCEPT !.i = @ + 1, !.searches = @ + 1,
                                         !.inFlight = 1]
               /\ Goto("video", "search") /\ UNCHANGED sv
  /\ UNCHANGED <<latest, dated, written>>
  /\ UNCHANGED vidVarsRest

\* The delay timer fires: i++ and the next search is sent.
VideoDelay ==
  /\ pc["video"] = "delay"
  /\ vid' = [vid EXCEPT !.i = @ + 1, !.searches = @ + 1, !.inFlight = 1,
                        !.delays = @ + 1]
  /\ Goto("video", "search")
  /\ UNCHANGED <<latest, dated, written, sv>>
  /\ UNCHANGED vidVarsRest

\* ----------------------------------------------------------- render stage
\* generateChartDataJS: one chart item per enriched entry.
ChartItem(item) ==
  [rank |-> item.rank, artist |-> item.artist, title |-> item.title,
   album |-> IF Truthy(item.album) THEN item.album ELSE "s:Unknown Album",
   credits |-> item.credits.lines,
   youtubeId |-> IF item.youtube.found /\ item.youtube.videoId # ""
                 THEN item.youtube.videoId ELSE ""]

GenerateChartDataJS(data) == [i \in 1..Len(data) |-> ChartItem(data[i])]

renderVarsRest == <<today, runs, faults, latest, dated, written, orch,
                    startLatest, sv, chartData, cred, vid, call, sig, player>>

\* main(): ensureOutputDir, then loadLatestYouTubeData issues its readFile.
RenderStart ==
  /\ pc["render"] = "start"
  /\ \/ Fail("render", "mkdir")
     \/ Goto("render", "load")
  /\ UNCHANGED <<rend, dist>>
  /\ UNCHANGED renderVarsRest

\* loadLatestYouTubeData returns or throws; then the template is read.
RenderLoad ==
  /\ pc["render"] = "load"
  /\ IF ~Readable(latest["youtube"])
     THEN Fail("render", "load") /\ UNCHANGED rend
     ELSE Goto("render", "write") /\ rend' = DataOf(latest["youtube"])
  /\ UNCHANGED dist
  /\ UNCHANGED renderVarsRest

\* The template is loaded, the page generated and written (saveHTMLFile,
\* copyStaticAssets, generateMetadata); any failure exits with status 1.
RenderWrite ==
  /\ pc["render"] = "write"
  /\ \/ Fail("render", "write") /\ UNCHANGED dist
     \/ /\ dist' = [exists |-> TRUE, data |-> GenerateChartDataJS(rend)]
        /\ pc' = [pc EXCEPT !["render"] = "exited"]
        /\ exitCode' = [exitCode EXCEPT !["render"] = 0]
        /\ UNCHANGED failedAt
  /\ UNCHANGED rend
  /\ UNCHANGED renderVarsRest

\* ---------------------------------------------------------- specification
Next ==
  \/ NextDay
  \/ OrchStart
  \/ ManualRun
  \/ runScriptSpawn
  \/ runScriptClose
  \/ ChartStart
  \/ ChartScrape
  \/ saveChartData
  \/ CreditsStart
  \/ CreditsLoad
  \/ CreditsSubmit
  \/ CreditsPoll
  \/ CreditsSleep
  \/ saveCreditsData
  \/ VideoStart
  \/ VideoQuota
  \/ VideoLoad
  \/ VideoSearch
  \/ VideoDelay
  \/ saveYouTubeData
  \/ RenderStart
  \/ RenderLoad
  \/ RenderWrite
  \/ Interrupt

Spec == Init /\ [][Next]_vars

pipeVars == <<today, runs, faults, latest, dated, written, orch, pc,
              exitCode, failedAt, startLatest, sv, chartData, cred, vid,
              rend, dist, sig, player>>

\* ----------------------------------------------------- findBestVideo alone
\* Videos a search can return, by what channel name and title contain.
VideoKinds ==
  { Video("official", {"vevo"}, {"artist", "title", "official"}),
    Video("label", {"records"}, {}),
    Video("named", {}, {"artist", "title"}),
    Video("mv", {}, {"music video"}),
    Video("plain", {}, {}),
    Video("cover", {}, {"cover"}),
    Video("namedcover", {}, {"artist", "title", "cover"}),
    Video("officiallive", {"vevo"}, {"artist", "title", "official", "live"}),
    Video("remix", {}, {"official", "remix"}),
    Video("all", {"vevo", "official", "artist"},
          {"artist", "title", "official", "music video"}),
    Video("worst", {}, {"cover", "live", "remix"}) }

VideoLists == UNION {[1..n -> VideoKinds] : n \in 0..MaxVideos}

InitSelect ==
  /\ PipelineInit
  /\ player = NoPlayer
  /\ \E vs \in VideoLists :
       call = [fn |-> "findBestVideo", arg |-> vs, done |-> FALSE, ret |-> 0]

\* const officialVideo = findBestVideo(videos, artist, title)
CallSelect ==
  /\ call.fn = "findBestVideo" /\ ~call.done
  /\ call' = [call EXCEPT !.done = TRUE, !.ret = FindBestVideo(call.arg)]
  /\ UNCHANGED pipeVars

NextSelect == CallSelect

SpecSelect == InitSelect /\ [][NextSelect]_vars

\* ------------------------------------------- validateAndCleanCredits alone
\* Credit lines of a task result: null, or an object whose role and people
\* are a string (possibly empty), a number or missing.
NullLine == [isObj |-> FALSE, role |-> "undef", people |-> "undef"]
LineLists ==
  { <<>>,
    <<Line("s:PRODUCER", "s:X")>>,
    <<Line("s:", "s:X"), Line("s:PRODUCER", "s:X"), Line("s:A", "s:B")>>,
    <<Line("s:PRODUCER", "s:X"), Line("n:1", "s:X"), Line("s:A", "s:B")>>,
    <<Line("s:A", "s:B"), Line("s:PRODUCER", "undef")>>,
    <<Line("s:PRODUCER", "s:X"), NullLine>> }

\* Items of a task result: null, or an object.  Its credits field is an
\* array of lines, or anything else (absent, a string, an object: all the
\* same to Array.isArray).
NullItem == [isObj |-> FALSE, rank |-> "undef", artist |-> "undef",
             title |-> "undef", album |-> "undef",
             credits |-> [isArray |-> FALSE, lines |-> <<>>]]
Headers ==
  { <<"n:1", "s:A", "s:B", "s:C">>, <<"n:2", "s:A", "s:B", "undef">>,
    <<"undef", "s:A", "s:B", "s:C">>, <<"n:1", "s:", "s:B", "s:C">>,
    <<"n:2", "s:A", "null", "s:C">>, <<"undef", "s:", "null", "undef">> }
Items ==
  {NullItem}
  \cup { Item(h[1], h[2], h[3], h[4], TRUE, ls) :
           h \in Headers, ls \in LineLists }
  \cup { Item(h[1], h[2], h[3], h[4], FALSE, <<>>) : h \in Headers }

\* Task results: not an array, or an array of up to MaxItems items.
Payloads ==
  {[isArray |-> FALSE, items |-> <<>>]}
  \cup { [isArray |-> TRUE, items |-> its] :
           its \in UNION {[1..n -> Items] : n \in 0..MaxItems} }

NoResult == [ok |-> FALSE, err |-> "", data |-> <<>>]

InitValidate ==
  /\ PipelineInit
  /\ player = NoPlayer
  /\ \E p \in Payloads :
       call = [fn |-> "validateAndCleanCredits", arg |-> p, done |-> FALSE,
               ret |-> NoResult]

\* const cleanedCredits = validateAndCleanCredits(creditsResult)
CallValidate ==
  /\ call.fn = "validateAndCleanCredits" /\ ~call.done
  /\ call' = [call EXCEPT !.done = TRUE,
                          !.ret = ValidateAndCleanCredits(call.arg)]
  /\ UNCHANGED pipeVars

NextValidate == CallValidate

SpecValidate == InitValidate /\ [][NextValidate]_vars

\* ------------------------------------------------- scrapeKworbChart alone
\* Second cells of the table rows after the header: blank, text without
\* " - ", text with it.
Cells == {<<>>, <<"B">>, <<"A", "B">>}
RowLists == UNION {[1..n -> Cells] : n \in 0..MaxRows}

NoChart == [ok |-> FALSE, data |-> <<>>]

\* scrapeKworbChart from the parsed page on: the rows are walked, an empty
\* result throws, otherwise the entries are returned (and then saved).
ScrapeKworbChart(rows) ==
  LET data == ScrapeRows(<<>>, rows) IN
  [ok |-> Len(data) # 0, data |-> data]

InitScrape ==
  /\ PipelineInit
  /\ player = NoPlayer
  /\ \E rows \in RowLists :
       call = [fn |-> "scrapeKworbChart", arg |-> rows, done |-> FALSE,
               ret |-> NoChart]

\* const chartData = await scrapeKworbChart()
CallScrape ==
  /\ call.fn = "scrapeKworbChart" /\ ~call.done
  /\ call' = [call EXCEPT !.done = TRUE, !.ret = ScrapeKworbChart(call.arg)]
  /\ UNCHANGED pipeVars

NextScrape == CallScrape

SpecScrape == InitScrape /\ [][NextScrape]_vars

\* ------------------------------------------- waitForTaskCompletion alone
\* `node trigger-manus-agent.js` run by hand on day 1, after the chart
\* stage has written its snapshot: the task has been submitted and
\* waitForTaskCompletion has sent its first GET.
InitWait ==
  /\ \E rows \in Pages :
       LET data == ScrapeRows(<<>>, rows)
           doc == [timestamp |-> 1, source |-> KWORB_URL, data |-> data]
       IN /\ Len(data) # 0
          /\ latest = [k \in Kinds |->
                         IF k = "chart" THEN FileOf(doc) ELSE NoFile]
          /\ dated = [k \in Kinds |-> [d \in Days |->
                         IF k = "chart" /\ d = 1 THEN FileOf(doc)
                         ELSE NoFile]]
          /\ written = [k \in Kinds |->
                          IF k = "chart" THEN Record(NoWrite, 1, doc)
                          ELSE NoWrite]
          /\ cred = [CredInit EXCEPT !.chartData = data,
                                     !.submits = PostsPerRun(data),
                                     !.request = PromptLines(data),
                                     !.polls = 1]
  /\ today = 1
  /\ runs = [orch |-> 0, manual |-> 1]
  /\ faults = 0
  /\ orch = [pc |-> "idle", idx |-> 0, exit |-> -1]
  /\ pc = [s \in StageSet |-> IF s = "credits" THEN "poll" ELSE "idle"]
  /\ exitCode = [s \in StageSet |-> -1]
  /\ failedAt = [s \in StageSet |-> ""]
  /\ startLatest = [s \in StageSet |-> NoFile]
  /\ sv = [s \in StageSet |-> NoSv]
  /\ chartData = <<>>
  /\ vid = VidInit
  /\ rend = <<>>
  /\ dist = [exists |-> FALSE, data |-> <<>>]
  /\ sig = NoSignal
  /\ player = NoPlayer
  /\ call = NoCall

NextWait ==
  \/ CreditsPoll
  \/ CreditsSleep

\* Every GET settles (axios gives up after its 300 s timeout at the latest)
\* and every 30 s timer fires.
SpecWait ==
  /\ InitWait
  /\ [][NextWait]_vars
  /\ WF_vars(CreditsPoll)
  /\ WF_vars(CreditsSleep)

\* ------------------------------------------------------- ChartPlayer alone
\* window.chartData of a rendered page: per track, its youtubeId or ''.
Charts == UNION {[1..n -> {"", "v1"}] : n \in 1..MaxTracks}

\* Indexes goToTrack is called with: the dots and Home / End give 0 ..
\* length - 1, a call from the console any integer.
TrackArgs == -2..(MaxTracks + 1)

\* DOMContentLoaded with a non-empty window.chartData: new ChartPlayer().
InitPlayer ==
  /\ PipelineInit
  /\ call = NoCall
  /\ \E c \in Charts : player = [NoPlayer EXCEPT !.chartData = c]

playerRest == <<today, runs, faults, latest, dated, written, orch, pc,
                exitCode, failedAt, startLatest, sv, chartData, cred, vid,
                rend, dist, sig, call>>

Did(op, arg) == [op |-> op, arg |-> arg, from |-> player.currentIndex]

\* if (this.currentIndex < this.chartData.length - 1) this.currentIndex++
NextIndexOffByOne(i, n) == IF i <= n - 1 THEN i + 1 ELSE i

NextIndex(i, n) == IF i < n - 1 THEN i + 1 ELSE i

\* if (this.currentIndex > 0) this.currentIndex--
PreviousIndex(i) == IF i > 0 THEN i - 1 ELSE i

\* if (index >= 0 && index < this.chartData.length) this.currentIndex = index
GoToIndex(i, index, n) == IF index >= 0 /\ index < n THEN index ELSE i

nextTrack ==
  /\ player.chartData # <<>>
  /\ player' = [player EXCEPT
                  !.currentIndex = NextIndex(@, Len(player.chartData)),
                  !.last = Did("nextTrack", 0)]
  /\ UNCHANGED playerRest

previousTrack ==
  /\ player.chartData # <<>>
  /\ player' = [player EXCEPT !.currentIndex = PreviousIndex(@),
                              !.last = Did("previousTrack", 0)]
  /\ UNCHANGED playerRest

goToTrack ==
  /\ player.chartData # <<>>
  /\ \E index \in TrackArgs :
       player' = [player EXCEPT
                    !.currentIndex =
                       GoToIndex(@, index, Len(player.chartData)),
                    !.last = Did("goToTrack", index)]
  /\ UNCHANGED playerRest

\* this.autoPlayInterval = setInterval(...): a timer set before stays alive.
startAutoPlay ==
  /\ player.chartData # <<>>
  /\ player.timers < MaxTimers
  /\ player' = [player EXCEPT !.autoPlayInterval = 1, !.timers = @ + 1,
                              !.last = Did("startAutoPlay", 0)]
  /\ UNCHANGED playerRest

\* if (this.autoPlayInterval) { clearInterval(...); ... = null }
stopAutoPlay ==
  /\ player.chartData # <<>>
  /\ player' = IF player.autoPlayInterval # 0
               THEN [player EXCEPT !.autoPlayInterval = 0, !.timers = @ - 1,
                                   !.last = Did("stopAutoPlay", 0)]
               ELSE [player EXCEPT !.last = Did("stopAutoPlay", 0)]
  /\ UNCHANGED playerRest

\* The callback of setInterval: nextTrack(), then from the last track back
\* to the first.
autoPlayTick ==
  /\ player.timers > 0
  /\ LET n == Len(player.chartData)
         i == NextIndex(player.currentIndex, n)
     IN player' = [player EXCEPT !.currentIndex = IF i = n - 1 THEN 0 ELSE i,
                                 !.last = Did("tick", 0)]
  /\ UNCHANGED playerRest

NextPlayer ==
  \/ nextTrack
  \/ previousTrack
  \/ goToTrack
  \/ startAutoPlay
  \/ stopAutoPlay
  \/ autoPlayTick

SpecPlayer == InitPlayer /\ [][NextPlayer]_vars


\* ================================================================= claims
Exited(s, code) == pc[s] = "exited" /\ exitCode[s] = code

\* ---------------------------------------------------------------------
\* C1: when the GET number k (k <= maxAttempts) is the first to answer
\* `completed`, waitForTaskCompletion returns the result carried by that
\* answer after exactly k GETs (k - 1 sleeps, attempts = k - 1) and sends no
\* further GET.
C1_Returned ==
  cred.outcome.type = "return" =>
    /\ cred.resp.kind = "http" /\ cred.resp.status = "completed"
    /\ cred.outcome.payload = cred.resp.payload
    /\ cred.polls = cred.attempts + 1
    /\ cred.sleeps = cred.attempts
    /\ cred.polls <= maxAttempts
    /\ pc["credits"] # "poll" /\ pc["credits"] # "sleep"

C1_Step ==
  /\ (pc["credits"] = "poll" /\ cred' # cred
      /\ cred'.resp.status = "completed")
       => /\ cred'.outcome = Returned(cred'.resp.payload)
          /\ cred'.polls = cred.polls
  /\ (cred.outcome.type = "return" /\ cred' # CredInit) => cred' = cred

C1_CompletedAtPollK == [](C1_Returned) /\ [][C1_Step]_vars

C1_Witness ==
  /\ cred.outcome.type = "return"
  /\ cred.polls = 3 /\ cred.sleeps = 2
  /\ pc["credits"] = "open_dated"

\* ---------------------------------------------------------------------
\* C2: when every GET answers pending or running, waitForTaskCompletion
\* throws the timeout error after exactly maxAttempts GETs (it never sends
\* more, and never times out after fewer), and the timeout error differs from
\* the error thrown for a remote `failed` status.
C2_Timeout ==
  /\ cred.polls <= maxAttempts
  /\ cred.outcome = Thrown(TaskTimeoutError) =>
       /\ cred.polls = maxAttempts
       /\ cred.attempts = maxAttempts
       /\ cred.resp.status \in ContinueStatuses
       /\ Exited("credits", 1) /\ failedAt["credits"] = "timeout"
  /\ (cred.outcome.type = "throw" /\ cred.resp.status = "failed") =>
       /\ cred.outcome.msg # TaskTimeoutError
       /\ failedAt["credits"] # "timeout"

C2_Step ==
  (pc["credits"] = "sleep" /\ cred' # cred) =>
     IF cred.polls = maxAttempts
     THEN /\ cred'.outcome = Thrown(TaskTimeoutError)
          /\ cred'.polls = cred.polls
     ELSE /\ cred'.outcome = NoOutcome
          /\ cred'.polls = cred.polls + 1

C2_TimeoutAfterMaxAttempts == [](C2_Timeout) /\ [][C2_Step]_vars

C2_Witness ==
  /\ cred.outcome = Thrown(TaskTimeoutError)
  /\ cred.polls = maxAttempts
  /\ Exited("credits", 1)

\* ---------------------------------------------------------------------
\* C3: at the first GET that answers `failed`, waitForTaskCompletion throws
\* at once an error whose message carries the remote error text; no sleep and
\* no GET follows.
C3_Failed ==
  (cred.resp.kind = "http" /\ cred.resp.status = "failed") =>
    /\ cred.outcome.type = "throw"
    /\ Len(cred.outcome.msg) = 2
    /\ cred.outcome.msg[1] = "Task failed: "
    /\ cred.outcome.msg[2] = cred.resp.err
    /\ cred.polls = cred.attempts + 1
    /\ cred.sleeps = cred.attempts
    /\ Exited("credits", 1) /\ failedAt["credits"] = "failed"

C3_Step ==
  (cred.resp.status = "failed" /\ cred' # CredInit) => cred' = cred

C3_RemoteFailureIsImmediate == [](C3_Failed) /\ [][C3_Step]_vars

C3_Witness ==
  /\ cred.resp.status = "failed" /\ cred.resp.err = "agent crashed"
  /\ cred.polls = 2
  /\ Exited("credits", 1)

\* ---------------------------------------------------------------------
\* C4: when a GET itself fails (network error, request timeout), the wait
\* ends with that same error thrown to the caller; the GET is not retried and
\* no later GET is sent, whatever is left of the budget.
C4_PollError ==
  cred.resp.kind = "neterr" =>
    /\ cred.outcome = Thrown(<<cred.resp.err>>)
    /\ cred.polls = cred.attempts + 1
    /\ Exited("credits", 1) /\ failedAt["credits"] = "pollerror"

C4_Step ==
  (cred.resp.kind = "neterr" /\ cred' # CredInit) => cred' = cred

C4_PollErrorAborts == [](C4_PollError) /\ [][C4_Step]_vars

C4_Witness ==
  /\ cred.resp.kind = "neterr"
  /\ cred.polls = 2 /\ cred.polls < maxAttempts
  /\ Exited("credits", 1)

\* ---------------------------------------------------------------------
\* C5: a run of the credits stage that has loaded the chart sends exactly one
\* POST, whose prompt has one line for every chart entry, however many
\* entries there are; if the POST fails it is not sent again, no GET is ever
\* sent and the process exits with status 1.
C5_Submit ==
  /\ cred.submits <= 1
  /\ cred.polls > 0 => cred.submits = 1
  /\ cred.chartData # <<>> =>
       /\ cred.submits = 1
       /\ Len(cred.request) = Len(cred.chartData)
       /\ \A i \in 1..Len(cred.chartData) :
            cred.request[i] = <<cred.chartData[i].rank,
                                cred.chartData[i].artist,
                                cred.chartData[i].title>>
  /\ (failedAt["credits"] = "submit" /\ cred # CredInit) =>
       /\ cred.submits = 1 /\ cred.polls = 0
       /\ Exited("credits", 1)

C5_Step ==
  (failedAt["credits"] = "submit" /\ cred # CredInit /\ cred' # CredInit)
     => cred' = cred

C5_OneBulkSubmission == [](C5_Submit) /\ [][C5_Step]_vars

C5_Witness ==
  /\ failedAt["credits"] = "submit"
  /\ Len(cred.chartData) = 2
  /\ cred.submits = 1 /\ cred.polls = 0


\* ---------------------------------------------------------------------
\* C6: in a run of the orchestrator, a stage is started only after the stage
\* before it has exited with status 0; once a stage has exited with another
\* status no further stage is started and the only step the orchestrator
\* takes is to exit with a non-zero status.
StageFailed == \E s \in StageSet : pc[s] = "exited" /\ exitCode[s] # 0

C6_Abort ==
  orch.pc # "idle" =>
    /\ \A i \in 2..Len(Stages) :
         pc[Stages[i]] # "idle" => Exited(Stages[i - 1], 0)
    /\ (orch.pc = "exited" /\ StageFailed) => orch.exit > 0
    /\ orch.exit = 0 => \A s \in StageSet : Exited(s, 0)

C6_Step ==
  (orch.pc # "idle" /\ orch'.pc # "idle" /\ StageFailed
   /\ runs'.orch = runs.orch) =>
     /\ \A s \in StageSet : pc[s] = "idle" => pc'[s] = "idle"
     /\ orch' # orch => (orch'.pc = "exited" /\ orch'.exit > 0)

C6_FailureAbortsPipeline == [](C6_Abort) /\ [][C6_Step]_vars

C6_Witness ==
  /\ orch.pc = "exited" /\ orch.exit = 1
  /\ Exited("chart", 0) /\ Exited("credits", 1)
  /\ pc["video"] = "idle" /\ pc["render"] = "idle"

\* ---------------------------------------------------------------------
\* C7: in a run of the orchestrator the stages run in the order chart,
\* credits, video, render, at most one stage process runs at any time, and
\* while a stage reads the latest alias of the kind before it, no process is
\* writing that kind and the alias holds, complete, the document of the last
\* dated snapshot written of that kind.
C7_Sequential ==
  orch.pc # "idle" =>
    /\ Cardinality({s \in StageSet : Running(s)}) <= 1
    /\ \A i, j \in 1..Len(Stages) :
         (i < j /\ pc[Stages[j]] # "idle") => pc[Stages[i]] = "exited"
    /\ \A s \in {"credits", "video", "render"} :
         pc[s] = "load" =>
           /\ \A t \in StageSet : KindOf(t) = Upstream(s) => ~Running(t)
           /\ Readable(latest[Upstream(s)])
           /\ latest[Upstream(s)].docs[1] = written[Upstream(s)].doc
           /\ dated[Upstream(s)][written[Upstream(s)].day]
                = latest[Upstream(s)]

C7_Witness ==
  /\ orch.pc = "await"
  /\ pc["video"] = "load"
  /\ Exited("chart", 0) /\ Exited("credits", 0)
  /\ Len(DataOf(latest["credits"])) = 2

\* ---------------------------------------------------------------------
\* C8: when the credits stage or the video stage fails at one of these
\* steps: upstream alias missing, POST failed, GET failed, remote `failed`,
\* timeout, result not an array (and also: API key missing, quota probe
\* failed), then the latest alias of its own kind holds after the failure
\* exactly what it held when the stage started.
C8_Steps == {"load", "submit", "pollerror", "failed", "timeout", "validate",
             "nokey", "quota", "prompt"}

C8_FailedStageKeepsLatest ==
  \A s \in {"credits", "video"} :
    (Exited(s, 1) /\ failedAt[s] \in C8_Steps) =>
       latest[KindOf(s)] = startLatest[s]

C8_Witness ==
  /\ Exited("credits", 1) /\ failedAt["credits"] = "validate"
  /\ Readable(latest["credits"])
  /\ latest["credits"] = startLatest["credits"]

\* ---------------------------------------------------------------------
\* C9: after a save function has completed, the latest alias of its kind
\* holds exactly the document of the most recently written dated snapshot
\* of that kind, which that snapshot file holds too.
C9_LatestIsNewest ==
  \A s \in {"chart", "credits", "video"} :
    Exited(s, 0) =>
      /\ written[KindOf(s)].n >= 1
      /\ latest[KindOf(s)] = FileOf(written[KindOf(s)].doc)
      /\ dated[KindOf(s)][written[KindOf(s)].day] = latest[KindOf(s)]

C9_Witness ==
  /\ Exited("chart", 0)
  /\ written["chart"].day = 2
  /\ Readable(dated["chart"][1]) /\ Readable(dated["chart"][2])
  /\ DataOf(dated["chart"][1]) # DataOf(dated["chart"][2])
  /\ latest["chart"] = dated["chart"][2]

\* ---------------------------------------------------------------------
\* C10: after two completed writes of the same kind on the same day, the
\* dated snapshot of that day holds one document, the second, and reading the
\* latest alias gives the data of the second write and nothing else.
C10_RewriteOverwrites ==
  \A s \in {"chart", "credits", "video"} :
    (Exited(s, 0) /\ written[KindOf(s)].n >= 2) =>
      /\ Len(dated[KindOf(s)][written[KindOf(s)].day].docs) = 1
      /\ dated[KindOf(s)][written[KindOf(s)].day].docs[1]
           = written[KindOf(s)].doc
      /\ Readable(latest[KindOf(s)])
      /\ DataOf(latest[KindOf(s)]) = written[KindOf(s)].doc.data

C10_Witness ==
  /\ Exited("credits", 0)
  /\ written["credits"].n = 2
  /\ written["credits"].prev.data # written["credits"].doc.data
  /\ DataOf(latest["credits"]) = written["credits"].doc.data

\* ---------------------------------------------------------------------
\* C11 (as stated): a stage that fails because the latest alias it reads is
\* absent has sent no remote request at all before failing: no task
\* submission, no poll and no search of any sort.
Consumers == {"credits", "video", "render"}
Owner == [chart |-> "chart", credits |-> "credits", youtube |-> "video"]

C11_NoRemoteBeforeNotFound ==
  \A s \in Consumers :
    (failedAt[s] = "load" /\ ~latest[Upstream(s)].exists) =>
       /\ cred.submits = 0 /\ cred.polls = 0
       /\ vid.searches = 0 /\ vid.probes = 0

\* C11: a stage that reads an absent latest alias fails (status 1) with the
\* not-found error that names the script of the upstream stage; it has then
\* sent no task submission and no poll (credits) and no search for an entry
\* (video: only the one accessibility probe that main() sends before the
\* read), and it has written nothing of its own kind.
C11_NotFound ==
  \A s \in Consumers :
    (failedAt[s] = "load" /\ ~latest[Upstream(s)].exists) =>
       /\ Exited(s, 1)
       /\ Len(LoadError(s)) = 3
       /\ LoadError(s)[2] = Script(Owner[Upstream(s)])
       /\ sv[s] = NoSv
       /\ KindOf(s) \in Kinds => latest[KindOf(s)] = startLatest[s]
       /\ s = "credits" => (cred.submits = 0 /\ cred.polls = 0)
       /\ s = "video" => (vid.searches = 0 /\ vid.probes <= 1)

C11_Step ==
  \A s \in Consumers :
    (pc[s] = "load" /\ ~latest[Upstream(s)].exists /\ pc'[s] # "load") =>
       /\ pc'[s] = "exited" /\ exitCode'[s] = 1 /\ failedAt'[s] = "load"
       /\ latest' = latest /\ dated' = dated /\ written' = written
       /\ s = "credits" => cred'.submits = 0
       /\ s = "video" => (vid'.searches = 0 /\ vid'.probes = 1)

C11_MissingUpstreamIsNotFound == [](C11_NotFound) /\ [][C11_Step]_vars

C11_Witness ==
  /\ Exited("video", 1) /\ failedAt["video"] = "load"
  /\ ~latest["credits"].exists
  /\ vid.probes = 1 /\ vid.searches = 0

\* ---------------------------------------------------------------------
\* C12: a step changes a dated snapshot or a latest alias only of the kind
\* owned by the stage that is running, and only inside that stage's save
\* function; the renderer changes none.  What a stage loads is the data of
\* the latest alias of the kind before its own, and the load fails exactly
\* when that alias cannot be read.
C12_Writes ==
  \A k \in Kinds :
    (latest'[k] # latest[k] \/ dated'[k] # dated[k]) =>
       /\ pc[Owner[k]] \in {"open_dated", "write_dated", "open_latest",
                            "write_latest"}
       /\ \A j \in Kinds \ {k} : latest'[j] = latest[j] /\ dated'[j] = dated[j]

C12_Reads ==
  \A s \in Consumers :
    (pc[s] = "load" /\ pc'[s] # "load") =>
       /\ failedAt'[s] = "load" <=> ~Readable(latest[Upstream(s)])
       /\ Readable(latest[Upstream(s)]) =>
            CASE s = "credits" ->
                   cred'.chartData = DataOf(latest[Upstream(s)])
              [] s = "video" ->
                   vid'.creditsData = DataOf(latest[Upstream(s)])
              [] OTHER -> rend' = DataOf(latest[Upstream(s)])

C12_SnapshotOwnership == [][C12_Writes /\ C12_Reads]_vars

C12_Witness ==
  /\ Exited("video", 0)
  /\ Readable(latest["chart"]) /\ Readable(latest["credits"])
  /\ Readable(latest["youtube"])
  /\ startLatest["video"] # latest["youtube"]

\* ---------------------------------------------------------------------
\* C13: when the result of the completed task is not an array,
\* validateAndCleanCredits throws 'Credits data must be an array', nothing
\* is handed to saveCreditsData (no snapshot, alias untouched) and the
\* credits process exits with status 1.
C13_NonArrayIsFatal ==
  (cred.outcome.type = "return"
   /\ ~ResultPayloads[cred.outcome.payload].isArray) =>
     /\ ~ValidateAndCleanCredits(ResultPayloads[cred.outcome.payload]).ok
     /\ ValidateAndCleanCredits(ResultPayloads[cred.outcome.payload]).err
          = "Credits data must be an array"
     /\ Exited("credits", 1) /\ failedAt["credits"] = "validate"
     /\ sv["credits"] = NoSv
     /\ latest["credits"] = startLatest["credits"]

C13_Witness ==
  /\ cred.outcome.type = "return"
  /\ ~ResultPayloads[cred.outcome.payload].isArray
  /\ cred.polls = 2
  /\ Exited("credits", 1)

\* ---------------------------------------------------------------------
\* C14: for every result that is an array, whatever its items and credit
\* lines are, validateAndCleanCredits returns (it does not throw).
C14_ArrayNeverFails ==
  (call.fn = "validateAndCleanCredits" /\ call.done /\ call.arg.isArray)
     => call.ret.ok

\* ---------------------------------------------------------------------
\* Words of the claims about the cleaner.  A field is present and non-empty
\* when it is neither missing, null nor the empty string; an output entry
\* is an input item when rank, artist, title and album agree.
Present(v) == v \notin {"undef", "null", "s:"}
HasRequired(item) ==
  item.isObj /\ Present(item.rank) /\ Present(item.artist)
  /\ Present(item.title)
SameEntry(o, item) ==
  /\ o.rank = item.rank /\ o.artist = item.artist
  /\ o.title = item.title /\ o.album = item.album
Validated == call.fn = "validateAndCleanCredits" /\ call.done

\* C15: after validateAndCleanCredits was called on an array, an item of the
\* array is in the output if and only if its rank, artist and title are all
\* present and non-empty, and the output has one entry for each such item
\* (dropping an item takes nothing else away).
C15_KeptIffRequiredFields ==
  (Validated /\ call.arg.isArray) =>
     LET items == call.arg.items
         out == call.ret.data
     IN /\ \A i \in 1..Len(items) :
             HasRequired(items[i]) <=>
               \E j \in 1..Len(out) : SameEntry(out[j], items[i])
        /\ Len(out)
             = Cardinality({i \in 1..Len(items) : HasRequired(items[i])})

\* ---------------------------------------------------------------------
\* C16: the output of validateAndCleanCredits is a subsequence of its input:
\* its entries are input items taken at strictly increasing positions, so
\* none is moved before an earlier one and none appears twice.
C16_OrderPreserved ==
  Validated =>
     LET items == call.arg.items
         out == call.ret.data
     IN \E f \in [1..Len(out) -> 1..Len(items)] :
          /\ \A j \in 1..Len(out) : SameEntry(out[j], items[f[j]])
          /\ \A j, k \in 1..Len(out) : j < k => f[j] < f[k]

C16_Witness ==
  /\ Validated /\ call.ret.ok
  /\ Len(call.arg.items) = 3 /\ Len(call.ret.data) = 2
  /\ ~HasRequired(call.arg.items[2])
  /\ call.ret.data[1].rank = "n:2" /\ call.ret.data[2].rank = "n:1"

\* ---------------------------------------------------------------------
\* C17: in every entry of the output, the credit lines are exactly the lines
\* of the input item whose role and people are both non-empty strings, in
\* their original order, and rank, artist, title and album are those of the
\* input item.  (The j-th entry of the output comes from the j-th item of
\* the input that has its required fields.)
NonEmptyString(v) == v \in JsStrings \ {"s:"}
GoodLine(l) ==
  l.isObj /\ NonEmptyString(l.role) /\ NonEmptyString(l.people)
SurvivorIndex(items, j) ==
  CHOOSE i \in 1..Len(items) :
    /\ HasRequired(items[i])
    /\ Cardinality({k \in 1..i : HasRequired(items[k])}) = j

C17_LinesFiltered ==
  Validated =>
     LET items == call.arg.items
         out == call.ret.data
     IN \A j \in 1..Len(out) :
          LET item == items[SurvivorIndex(items, j)] IN
          /\ SameEntry(out[j], item)
          /\ item.credits.isArray =>
               out[j].credits.lines
                 = SelectSeq(item.credits.lines, GoodLine)

C17_Witness ==
  /\ Validated /\ call.ret.ok /\ Len(call.ret.data) >= 1
  /\ Len(call.arg.items[1].credits.lines) = 3
  /\ call.ret.data[1].album = "undef"
  /\ call.ret.data[1].credits.lines
       = <<Line("s:PRODUCER", "s:X"), Line("s:A", "s:B")>>

\* ---------------------------------------------------------------------
\* C18: after validateAndCleanCredits was called on an array, every item
\* with rank, artist and title present whose credits field is not an array
\* (absent or of another type) is in the output, with credits the empty
\* array.
C18_CreditsCoerced ==
  (Validated /\ call.arg.isArray) =>
     LET items == call.arg.items
         out == call.ret.data
     IN \A i \in 1..Len(items) :
          (HasRequired(items[i]) /\ ~items[i].credits.isArray) =>
             \E j \in 1..Len(out) :
               /\ SameEntry(out[j], items[i])
               /\ out[j].credits = [isArray |-> TRUE, lines |-> <<>>]

\* ---------------------------------------------------------------------
\* C19: findBestVideo returns null if and only if the list of videos is
\* empty: from a non-empty list it returns one of the videos, whatever the
\* scores are.
Selected == call.fn = "findBestVideo" /\ call.done

C19_AbsentIffEmpty ==
  Selected =>
     /\ call.ret \in 0..Len(call.arg)
     /\ call.ret = 0 <=> Len(call.arg) = 0

Bonus(cond, n) == IF cond THEN n ELSE 0
C21_Official == {"vevo", "records", "music", "official", "artist"}
C21_Excluded ==
  {"cover", "remix", "live", "acoustic", "karaoke", "instrumental"}

C21_ScoreFormula ==
  Selected =>
    \A k \in 1..Len(call.arg) :
      LET v == call.arg[k] IN
      /\ Score(v, k)
           = Bonus(v.channelHas \cap C21_Official # {}, 10)
             + Bonus({"artist", "title"} \subseteq v.titleHas, 5)
             + Bonus(v.titleHas \cap {"official", "music video"} # {}, 3)
             - Bonus(v.titleHas \cap C21_Excluded # {}, 5)
             + Bonus(k = 1, 2)
      /\ Score(v, k) \in -5..20

C21_Witness ==
  /\ Selected /\ Len(call.arg) = 2
  /\ Cardinality(call.arg[1].channelHas) = 3
  /\ Score(call.arg[1], 1) = 20
  /\ Cardinality(call.arg[2].titleHas) = 3
  /\ Score(call.arg[2], 2) = -5

\* ---------------------------------------------------------------------
\* C22: at one position, a video whose title contains an excluded keyword
\* scores exactly 5 less than the video that differs from it only in that
\* its title contains none.  Stated for every video of the list whose
\* title contains none against the same video with each excluded keyword
\* added, and between the videos of the list that differ only so.
C22_Clean(v) == v.titleHas \cap C21_Excluded = {}
C22_SameBut(v, w) ==
  /\ v.channelHas = w.channelHas
  /\ v.titleHas = w.titleHas \ C21_Excluded

C22_PenaltyIsFive ==
  Selected =>
    \A k \in 1..Len(call.arg) :
      LET v == call.arg[k] IN
      C22_Clean(v) =>
        /\ \A e \in C21_Excluded :
             Score([v EXCEPT !.titleHas = @ \cup {e}], k) = Score(v, k) - 5
        /\ \A j \in 1..Len(call.arg) :
             (~C22_Clean(call.arg[j]) /\ C22_SameBut(v, call.arg[j]))
               => Score(call.arg[j], k) = Score(v, k) - 5

C22_Witness ==
  /\ Selected /\ Len(call.arg) = 3
  /\ C22_Clean(call.arg[2]) /\ ~C22_Clean(call.arg[3])
  /\ C22_SameBut(call.arg[2], call.arg[3])
  /\ Score(call.arg[2], 2) = 5
  /\ Score(call.arg[3], 2) = 0
  /\ Score([call.arg[2] EXCEPT !.titleHas = @ \cup {"instrumental"}], 2) = 0

\* ---------------------------------------------------------------------
\* C23: in collectAllYouTubeLinks a search that fails or finds no video
\* gives its entry an absent match and does not end the run: the loop goes
\* on to the delay or to the save, every entry is searched, and the results
\* hold one entry per input entry.
InSave(s) ==
  pc[s] \in {"open_dated", "write_dated", "open_latest", "write_latest"}

C23_Absent(r) == r.failed \/ r.videos = <<>>

C23_OnePerEntry ==
  /\ pc["video"] = "search"
       => /\ vid.i \in 1..Len(vid.creditsData)
          /\ Len(vid.results) = vid.i - 1
          /\ vid.searches = vid.i
  /\ pc["video"] = "delay"
       => /\ vid.i < Len(vid.creditsData)
          /\ Len(vid.results) = vid.i
  /\ InSave("video")
       => /\ Len(vid.results) = Len(vid.creditsData)
          /\ vid.searches = Len(vid.creditsData)
          /\ sv["video"].doc.data = vid.results

C23_Settles ==
  (pc["video"] = "search" /\ vid' # vid)
    => /\ pc'["video"] \in {"search", "delay", "open_dated"}
       /\ failedAt'["video"] = ""
       /\ Len(vid'.results) = Len(vid.results) + 1
       /\ C23_Absent(vid'.resp)
            => ~vid'.results[Len(vid'.results)].youtube.found

C23_FaultIsolation == []C23_OnePerEntry /\ [][C23_Settles]_vars

C23_Witness ==
  /\ InSave("video")
  /\ Len(vid.creditsData) = 2 /\ vid.searches = 2
  /\ ~vid.results[1].youtube.found
  /\ vid.results[2].youtube.found
  /\ Len(sv["video"].doc.data) = 2

\* ---------------------------------------------------------------------
\* C24: collectAllYouTubeLinks has at most one search in flight, searches
\* the entries in input order, and sends the search for the next entry only
\* from the delay, after the search before it has settled and its entry has
\* been pushed.
C24_OneInFlight ==
  /\ vid.inFlight \in {0, 1}
  /\ pc["video"] = "search"
       => /\ vid.inFlight = 1
          /\ vid.searches = vid.delays + 1
          /\ vid.i = vid.searches
  /\ pc["video"] = "delay" => vid.inFlight = 0 /\ vid.searches = vid.delays + 1

C24_NextAfterDelay ==
  vid'.searches = vid.searches + 1
    => /\ vid.inFlight = 0
       /\ vid'.i = vid.i + 1
       /\ vid.searches >= 1
            => /\ pc["video"] = "delay"
               /\ vid'.delays = vid.delays + 1
               /\ Len(vid.results) = vid.searches

C24_Throttled == []C24_OneInFlight /\ [][C24_NextAfterDelay]_vars

C24_Witness ==
  /\ pc["video"] = "search"
  /\ vid.searches = 2 /\ vid.delays = 1 /\ vid.inFlight = 1
  /\ Len(vid.results) = 1

\* ---------------------------------------------------------------------
\* C25: the results of collectAllYouTubeLinks follow the input: result j
\* is input entry j with every field unchanged (rank, artist, title, album
\* and credits among them) plus youtube, which is the video findBestVideo
\* chose among the videos found for that entry, or absent.
C25_Fields == {"rank", "artist", "title", "album", "credits"}

C25_Carried ==
  (pc["video"] \in {"search", "delay"} \/ InSave("video"))
    => /\ Len(vid.results) <= Len(vid.creditsData)
       /\ InSave("video") => Len(vid.results) = Len(vid.creditsData)
       /\ \A j \in 1..Len(vid.results) :
            /\ C25_Fields \subseteq DOMAIN vid.creditsData[j]
            /\ DOMAIN vid.results[j]
                 = DOMAIN vid.creditsData[j] \cup {"youtube"}
            /\ \A f \in DOMAIN vid.creditsData[j] :
                 vid.results[j][f] = vid.creditsData[j][f]

C25_MatchOfEntry ==
  (pc["video"] = "search" /\ vid' # vid)
    => LET y == vid'.results[Len(vid'.results)].youtube
           found == vid'.resp.videos
       IN /\ Len(vid'.results) = vid.i
          /\ y.found
               => /\ FindBestVideo(found) \in 1..Len(found)
                  /\ y.videoId = found[FindBestVideo(found)].videoId
          /\ ~y.found
               => \/ C23_Absent(vid'.resp)
                  \/ FindBestVideo(found) = 0

C25_Preserved == []C25_Carried /\ [][C25_MatchOfEntry]_vars

C25_Witness ==
  /\ InSave("video")
  /\ Len(vid.results) = 2
  /\ Len(vid.results[1].credits.lines) > 0
  /\ vid.results[1].credits = vid.creditsData[1].credits
  /\ vid.results[1].rank # vid.results[2].rank
  /\ vid.resp.videos = <<OfficialVideo>>
  /\ vid.results[2].youtube = Match(OfficialVideo)

\* ---------------------------------------------------------------------
\* C26: once SIGINT or SIGTERM has arrived while waitForTaskCompletion
\* was polling, no further GET is sent, saveCreditsData is not entered, the
\* credits process does not end with status 0, and an orchestrator that was
\* running has ended with status 1.
C26_Stopped ==
  sig.target # ""
    => /\ sv["credits"] = NoSv
       /\ ~Exited("credits", 0)
       /\ sig.target # "stage" => orch.pc = "exited" /\ orch.exit = 1

C26_NoPollAfter ==
  (sig.target # "" /\ sig'.target # "") => cred'.polls = cred.polls

C26_CancelsPolling == []C26_Stopped /\ [][C26_NoPollAfter]_vars

\* ---------------------------------------------------------------------
\* C27: a stage that finds its API key missing ends with a non-zero
\* status having sent no request (no POST and no GET to Manus, no test
\* search and no search to YouTube) and having written nothing (its save
\* function never entered, the latest alias of its kind as it was when it
\* started); the orchestrator starts no later stage and ends with status 1.
Owned == [credits |-> "credits", video |-> "youtube"]
C27_Keyed == {"credits", "video"}

C27_Position(s) == CHOOSE i \in 1..Len(Stages) : Stages[i] = s

C27_NothingDone ==
  \A s \in C27_Keyed :
    failedAt[s] = "nokey"
      => /\ pc[s] = "exited" /\ exitCode[s] > 0
         /\ s = "credits" => cred.submits = 0 /\ cred.polls = 0
         /\ s = "video" => vid.probes = 0 /\ vid.searches = 0
         /\ sv[s] = NoSv
         /\ latest[Owned[s]] = startLatest[s]
         /\ orch.pc # "idle"
              => /\ \A i \in 1..Len(Stages) :
                      i > C27_Position(s) => pc[Stages[i]] = "idle"
                 /\ orch.exit # 0

C27_PipelineStops ==
  \A s \in C27_Keyed :
    (failedAt[s] = "nokey" /\ orch.pc = "await" /\ orch' # orch)
      => orch'.pc = "exited" /\ orch'.exit = 1

C27_MissingKeyIsFatal == []C27_NothingDone /\ [][C27_PipelineStops]_vars

C27_Witness ==
  /\ orch.pc = "exited" /\ orch.exit = 1
  /\ failedAt["video"] = "nokey" /\ Exited("video", 1)
  /\ Exited("credits", 0) /\ Readable(latest["credits"])
  /\ ~latest["youtube"].exists
  /\ pc["render"] = "idle"

\* ---------------------------------------------------------------------
\* C28: waitForTaskCompletion sends every GET after the first only when
\* the 30 s timer that followed the GET before it has fired, so that while
\* it polls the GETs sent number one more than the timers fired; and no
\* timer is started after a GET that answered completed or failed.
C28_Polling == pc["credits"] \in {"poll", "sleep"}

C28_OneSleepPerPoll ==
  /\ C28_Polling => cred.polls = cred.sleeps + 1
  /\ cred.resp.status \in {"completed", "failed"}
       => ~C28_Polling /\ cred.polls = cred.sleeps + 1

C28_PollAfterSleep ==
  /\ (cred'.polls = cred.polls + 1 /\ cred.polls >= 1)
       => /\ pc["credits"] = "sleep"
          /\ cred'.sleeps = cred.sleeps + 1
  /\ (pc["credits"] = "poll" /\ cred' # cred
        /\ cred'.resp.status \in {"completed", "failed"})
       => pc'["credits"] # "sleep" /\ cred'.sleeps = cred.sleeps

C28_Cadence == []C28_OneSleepPerPoll /\ [][C28_PollAfterSleep]_vars

C28_Witness ==
  /\ pc["credits"] = "open_dated"
  /\ cred.resp.status = "completed"
  /\ cred.polls = 3 /\ cred.sleeps = 2

\* ---------------------------------------------------------------------
\* C29: the entries scrapeKworbChart returns for saving carry the ranks
\* 1, 2, ..., n in list order with 1 <= n <= CHART_RANGE, whichever rows
\* of the page are blank.
Scraped == call.fn = "scrapeKworbChart" /\ call.done

C29_RanksContiguous ==
  Scraped
    => /\ \A i \in 1..Len(call.ret.data) : call.ret.data[i].rank = i
       /\ call.ret.ok => Len(call.ret.data) \in 1..ChartRange
       /\ Len(call.ret.data) <= Len(SelectSeq(call.arg, LAMBDA c : c # <<>>))

C29_Witness ==
  /\ Scraped /\ call.ret.ok
  /\ Len(call.arg) = 4
  /\ call.arg[1] = <<>> /\ call.arg[3] = <<>>
  /\ call.arg[2] # <<>> /\ call.arg[4] # <<>>
  /\ Len(call.ret.data) = 2
  /\ call.ret.data[2].rank = 2

\* ---------------------------------------------------------------------
\* C30: whatever the GETs answer, waitForTaskCompletion ends, having sent
\* at most maxAttempts GETs, in exactly one of four ways: it returns the
\* result of a completed task, throws "Task failed: ..." for a failed one,
\* rethrows the error of a GET, or throws the timeout error after
\* maxAttempts GETs; any other status, known or not, sends it to sleep.
C30_Ways ==
  LET o == cred.outcome IN
  { w \in {"result", "failed", "pollerror", "timeout"} :
      \/ /\ w = "result" /\ o.type = "return"
         /\ cred.resp.status = "completed" /\ o.payload = cred.resp.payload
      \/ /\ w = "failed" /\ o.type = "throw"
         /\ cred.resp.status = "failed"
         /\ o.msg = <<"Task failed: ", cred.resp.err>>
      \/ /\ w = "pollerror" /\ o.type = "throw"
         /\ cred.resp.kind = "neterr" /\ o.msg = <<cred.resp.err>>
      \/ /\ w = "timeout" /\ o.type = "throw"
         /\ cred.resp.kind = "http"
         /\ cred.resp.status \notin {"completed", "failed"}
         /\ o.msg = <<"Task timeout: Credits collection took too long">>
         /\ cred.polls = maxAttempts }

C30_OneOutcome ==
  /\ cred.polls <= maxAttempts
  /\ C28_Polling => cred.outcome.type = "none"
  /\ ~C28_Polling => Cardinality(C30_Ways) = 1

C30_OtherStatusSleeps ==
  (pc["credits"] = "poll" /\ cred' # cred /\ cred'.resp.kind = "http"
    /\ cred'.resp.status \notin {"completed", "failed"})
    => pc'["credits"] = "sleep" /\ cred'.outcome.type = "none"

C30_Terminates ==
  /\ []C30_OneOutcome
  /\ [][C30_OtherStatusSleeps]_vars
  /\ <>(~C28_Polling)

C30_Witness ==
  /\ ~C28_Polling
  /\ C30_Ways = {"timeout"}
  /\ cred.resp.status = "queued"
  /\ cred.polls = maxAttempts /\ cred.sleeps = maxAttempts

\* ---------------------------------------------------------------------
\* C31: validateAndCleanCredits called on the array it returned returns
\* that array again; and called on an array whose items all have rank,
\* artist and title and a credits array of lines whose role and people are
\* non-empty strings, it returns every item and every line as it was.
C31_WellFormed(item) ==
  /\ HasRequired(item)
  /\ item.credits.isArray
  /\ \A i \in 1..Len(item.credits.lines) : GoodLine(item.credits.lines[i])

C31_Again ==
  ValidateAndCleanCredits([isArray |-> TRUE, items |-> call.ret.data])

C31_Idempotent ==
  (Validated /\ call.ret.ok)
    => /\ C31_Again.ok
       /\ C31_Again.data = call.ret.data
       /\ (\A i \in 1..Len(call.arg.items) :
              C31_WellFormed(call.arg.items[i]))
            => call.ret.data = call.arg.items

C31_Witness ==
  /\ Validated /\ call.ret.ok
  /\ Len(call.arg.items) = 3 /\ Len(call.ret.data) = 2
  /\ ~C31_WellFormed(call.arg.items[1])
  /\ C31_WellFormed(call.arg.items[3])
  /\ Len(call.arg.items[1].credits.lines) = 3
  /\ Len(call.ret.data[1].credits.lines) = 2
  /\ call.ret.data[2] = call.arg.items[3]
  /\ Len(call.ret.data[2].credits.lines) = 1
  /\ C31_Again.data = call.ret.data

\* ---------------------------------------------------------------------
\* C32: a save function writes the latest alias only after its dated
\* file: whenever the alias of a kind is opened or written, the dated file
\* of that kind for the day of the save holds the complete document being
\* saved; so whatever document the alias holds, in every state and after
\* any failed write, is one that was written completely to a dated file of
\* its kind.
C32_AliasWasDated ==
  \A k \in Kinds :
    Readable(latest[k]) => latest[k].docs[1] \in written[k].docs

C32_DatedFirst ==
  \A k \in Kinds :
    latest'[k] # latest[k]
      => LET s == Owner[k] IN
         /\ pc[s] \in {"open_latest", "write_latest"}
         /\ Readable(dated[k][sv[s].day])
         /\ dated[k][sv[s].day].docs[1] = sv[s].doc
         /\ Readable(latest'[k]) => latest'[k].docs[1] = sv[s].doc

C32_DatedBeforeAlias == []C32_AliasWasDated /\ [][C32_DatedFirst]_vars

C32_Witness ==
  /\ failedAt["chart"] = "save" /\ Exited("chart", 1)
  /\ Readable(latest["chart"])
  /\ Readable(dated["chart"][today])
  /\ dated["chart"][today].docs[1] # latest["chart"].docs[1]
  /\ latest["chart"].docs[1] = written["chart"].prev
  /\ written["chart"].n = 2

\* ---------------------------------------------------------------------
\* C33: in a ChartPlayer with a non-empty chart, currentIndex is always
\* an index of the chart (0 .. length - 1), whatever nextTrack,
\* previousTrack, goToTrack(index) and autoplay ticks have run; nextTrack
\* at the last track, previousTrack at the first and goToTrack with an
\* index outside the chart leave currentIndex as it was.
C33_Length == Len(player.chartData)

C33_InRange ==
  player.chartData # <<>>
    => /\ player.currentIndex \in 0..(C33_Length - 1)
       /\ (player.last.op = "nextTrack"
            /\ player.last.from = C33_Length - 1)
            => player.currentIndex = player.last.from
       /\ (player.last.op = "previousTrack" /\ player.last.from = 0)
            => player.currentIndex = 0
       /\ (player.last.op = "goToTrack"
            /\ player.last.arg \notin 0..(C33_Length - 1))
            => player.currentIndex = player.last.from

C33_Witness ==
  /\ C33_Length = 3
  /\ player.timers > 0
  /\ player.last = [op |-> "goToTrack", arg |-> 3, from |-> 2]
  /\ player.currentIndex = 2

====
